---- MODULE Spec2Model ----
(***************************************************************************)
(* Model of EtherFiBidsExporter (src/etherfi-bids-exporter.py): the        *)
(* scheduler loop do(), the paginated fetch and transactional upsert of    *)
(* record_bids, the three publish steps and api_post_request.              *)
(***************************************************************************)
EXTENDS Integers, Sequences, FiniteSets, TLC

(* ---------------------------------------------------------------- bounds *)
\* number of passes of the while-loop of do() that are explored
MaxCycles == 2
\* the remote pubKeyIndex values lie in the windows 0 .. MaxWindow
MaxWindow == 2

(* ------------------------------------------------------ program constants *)
\* record_bids: interval = 1000
interval == 1000

\* the configured BIDDER_ADDRESS
bidder_address == "0xab"
\* the same address in another letter case, and another bidder
UpperAddress == "0xAB"
OtherAddress == "0xcd"

\* the BINARY collation: two addresses are equal when their bytes are
NoCaseExact(a) == a

\* COLLATE NOCASE folds ASCII letters before comparing
NoCase(a) == IF a = UpperAddress THEN bidder_address ELSE a

BidStatuses == <<"WON", "ACTIVE", "CANCELLED">>
Phases == <<"NOT_INITIALIZED", "STAKE_DEPOSITED", "WAITING_FOR_APPROVAL", "LIVE",
            "BEING_SLASHED", "EXITED", "FULLY_WITHDRAWN", "CANCELLED", "EVICTED",
            "READY_FOR_DEPOSIT">>

\* str.lower() on the phase names
Lower(phase) ==
    CASE phase = "NOT_INITIALIZED" -> "not_initialized"
      [] phase = "STAKE_DEPOSITED" -> "stake_deposited"
      [] phase = "WAITING_FOR_APPROVAL" -> "waiting_for_approval"
      [] phase = "LIVE" -> "live"
      [] phase = "BEING_SLASHED" -> "being_slashed"
      [] phase = "EXITED" -> "exited"
      [] phase = "FULLY_WITHDRAWN" -> "fully_withdrawn"
      [] phase = "CANCELLED" -> "cancelled"
      [] phase = "EVICTED" -> "evicted"
      [] phase = "READY_FOR_DEPOSIT" -> "ready_for_deposit"
      [] phase = "SLEEPING" -> "sleeping"
      [] OTHER -> phase

Range(s) == {s[i] : i \in DOMAIN s}

(* ------------------------------------------------------------ the remote *)
\* ids of the bids the remote source may hold for the configured bidder, in
\* the order in which the remote lists them
IdOrder == <<"b1", "b2">>
BidIds == Range(IdOrder)

\* pubKeyIndex of a bid inside its window: b1 sits on the last index of its
\* window, b2 on the first index of its window
Offset(id) == IF id = "b1" THEN interval - 1 ELSE 0

NoValidator == [has |-> FALSE, phase |-> "", complete |-> TRUE]
LiveValidator == [has |-> TRUE, phase |-> "LIVE", complete |-> TRUE]
OddValidator == [has |-> TRUE, phase |-> "SLEEPING", complete |-> TRUE]
BrokenValidator == [has |-> TRUE, phase |-> "LIVE", complete |-> FALSE]

\* the field values a remote bid record may carry; amount is the decimal
\* string as its sequence of digits; complete = FALSE: a field the upsert
\* reads is missing from the record
BidShapes ==
    { [bidderAddress |-> bidder_address, status |-> "ACTIVE", amount |-> <<9>>,
       complete |-> TRUE, validator |-> NoValidator],
      [bidderAddress |-> UpperAddress, status |-> "ACTIVE", amount |-> <<1, 0>>,
       complete |-> TRUE, validator |-> NoValidator],
      [bidderAddress |-> bidder_address, status |-> "WON", amount |-> <<1, 0>>,
       complete |-> TRUE, validator |-> LiveValidator],
      [bidderAddress |-> bidder_address, status |-> "CANCELLED", amount |-> <<9>>,
       complete |-> TRUE, validator |-> OddValidator],
      [bidderAddress |-> bidder_address, status |-> "PENDING", amount |-> <<9>>,
       complete |-> TRUE, validator |-> NoValidator],
      [bidderAddress |-> bidder_address, status |-> "ACTIVE", amount |-> <<9>>,
       complete |-> FALSE, validator |-> NoValidator],
      [bidderAddress |-> bidder_address, status |-> "WON", amount |-> <<1, 0>>,
       complete |-> TRUE, validator |-> BrokenValidator] }

RemoteBid(id, window, shape) ==
    [id |-> id, pubKeyIndex |-> window * interval + Offset(id),
     bidderAddress |-> shape.bidderAddress, status |-> shape.status,
     amount |-> shape.amount, complete |-> shape.complete,
     validator |-> shape.validator]

\* answers of the HTTP endpoint to one POST
RespKinds == {"ok", "nodata", "datanull", "non200", "timeout", "badjson"}

\* the answers that are transport or parse failures
RemoteFailures == {"non200", "timeout", "badjson"}

VARIABLES
    pc,               \* position of the process in do()
    cycle,            \* number of the current pass of the loop
    remote,           \* bids of the configured bidder held by the remote source
    start,            \* record_bids: cursor
    all_bids,         \* record_bids: accumulator, then the sorted batch
    pos,              \* record_bids: index of the next bid of the for-loop
    Bid, Validator,   \* committed tables of etherfi-bids.db
    txBid, txValidator, \* the tables as seen by the open connection
    api_health,       \* gauges: labels -> value
    bids_amount_min, bids_amount_max,
    winning_bids, active_bids, cancelled_bids,
    validators_phase,
    error,            \* the uncaught exception that ended the process
    hist              \* history of the current cycle (see NewHist)

vars == <<pc, cycle, remote, start, all_bids, pos, Bid, Validator, txBid,
          txValidator, api_health, bids_amount_min, bids_amount_max,
          winning_bids, active_bids, cancelled_bids, validators_phase, error,
          hist>>

gauges == <<bids_amount_min, bids_amount_max, winning_bids, active_bids,
            cancelled_bids, validators_phase>>

(* --------------------------------------------------------------- helpers *)
\* Gauge.labels(...): the child is created with value 0 on first use
GaugeLabels(g, labels) ==
    IF labels \in DOMAIN g THEN g
    ELSE [x \in DOMAIN g \cup {labels} |-> IF x = labels THEN 0 ELSE g[x]]

\* Gauge.labels(...).set(v)
GaugeSet(g, labels, v) ==
    [x \in DOMAIN g \cup {labels} |-> IF x = labels THEN v ELSE g[x]]

NoGauge == [x \in {} |-> 0]

\* a table is a bag of rows: row -> number of copies held
NoRows == [r \in {} |-> 0]

RECURSIVE Copies(_, _)
Copies(table, rows) ==
    IF rows = {} THEN 0
    ELSE LET r == CHOOSE x \in rows : TRUE
         IN table[r] + Copies(table, rows \ {r})

\* COUNT(*) over the rows of the table that satisfy a WHERE clause
Count(table, rows) == Copies(table, rows \cap DOMAIN table)

Without(table, rows) == [r \in DOMAIN table \ rows |-> table[r]]

With(table, row) ==
    [r \in DOMAIN table \cup {row} |->
        IF r = row THEN (IF row \in DOMAIN table THEN table[row] ELSE 0) + 1
        ELSE table[r]]

NoError == [exc |-> "", step |-> "", resp |-> ""]

\* what the current pass of the loop has done so far, and the rows of the
\* most recent committed upsert of every id (last)
NoCall == [made |-> FALSE, failure |-> FALSE, writes |-> 0, raised |-> FALSE]

\* no answer of the extrema request has been published in the cycle
NoExtrema == [set |-> FALSE, active |-> {}, min |-> <<>>, max |-> <<>>]

NewHist(b, v, last) ==
    [Bid0 |-> b, Validator0 |-> v, requests |-> 0, failed |-> "",
     honest |-> TRUE, ran |-> {}, written |-> {},
     local_query |-> FALSE, last |-> last, call |-> NoCall, events |-> <<>>,
     extrema |-> NoExtrema]

\* the history with an event of the cycle added, once
Event(h, e) ==
    IF e \in Range(h.events) THEN h ELSE [h EXCEPT !.events = Append(@, e)]

\* a pass of do() that starts with the publication of the status gauges
FirstStepPublish == "get_our_bids"

\* the first call of a pass of the while-loop of do()
FirstStep == "record_bids"

\* the call of do() that follows a call that has returned
AfterStep(step) ==
    CASE step = "record_bids" -> "get_our_bids"
      [] step = "get_our_bids" -> "get_active_bids"
      [] step = "get_active_bids" -> "get_validators_phase"
      [] step = "get_validators_phase" -> "sleep"

(* ------------------------------------------------------ api_post_request *)
\* the parsed body of a 200 response, or None
NoneResult == [none |-> TRUE, has_data |-> FALSE, data_null |-> FALSE]
JsonResult(kind) ==
    [none |-> FALSE, has_data |-> kind # "nodata", data_null |-> kind = "datanull"]

status_code(kind) == IF kind = "non200" THEN 500 ELSE 200

\* an api_post_request that answers a non-200 status with an empty dict
api_post_request_empty_dict(kind, health) ==
    IF kind = "timeout"
    THEN [exc |-> "Timeout", health |-> health, writes |-> 0, result |-> NoneResult]
    ELSE IF status_code(kind) # 200
    THEN [exc |-> "", health |-> 0, writes |-> 1, result |-> JsonResult("nodata")]
    ELSE IF kind = "badjson"
    THEN [exc |-> "JSONDecodeError", health |-> 1, writes |-> 1, result |-> NoneResult]
    ELSE [exc |-> "", health |-> 1, writes |-> 1, result |-> JsonResult(kind)]

\* api_post_request on an answer of the given kind: the exception it lets
\* out (if any), the value of api_health after the call and its result
api_post_request(kind, health) ==
    IF kind = "timeout"
    THEN [exc |-> "Timeout", health |-> health, writes |-> 0, result |-> NoneResult]
    ELSE IF status_code(kind) # 200
    THEN [exc |-> "", health |-> 0, writes |-> 1, result |-> NoneResult]
    ELSE IF kind = "badjson"
    THEN [exc |-> "JSONDecodeError", health |-> 1, writes |-> 1, result |-> NoneResult]
    ELSE [exc |-> "", health |-> 1, writes |-> 1, result |-> JsonResult(kind)]

\* the call as the history of the cycle records it
Called(kind, r) ==
    [made |-> TRUE, failure |-> kind \in RemoteFailures, writes |-> r.writes,
     raised |-> r.exc # ""]

(* ----------------------------------------------------------- record_bids *)
\* the remote's answer to bids(where: {pubKeyIndex_gte: lo, pubKeyIndex_lt: hi},
\* first: n): the matching records in the remote's order, at most n of them
InWindow(b, lo, hi) == b.pubKeyIndex >= lo /\ b.pubKeyIndex < hi

RECURSIVE PageFrom(_, _, _, _)
PageFrom(rem, lo, hi, i) ==
    IF i > Len(IdOrder) THEN <<>>
    ELSE LET here == {b \in rem : b.id = IdOrder[i] /\ InWindow(b, lo, hi)}
         IN (IF here = {} THEN <<>> ELSE <<CHOOSE b \in here : TRUE>>)
            \o PageFrom(rem, lo, hi, i + 1)

First(s, n) == IF Len(s) <= n THEN s ELSE SubSeq(s, 1, n)

Page(rem, lo, hi, n) == First(PageFrom(rem, lo, hi, 1), n)

\* sorted(all_bids, key=lambda x: int(x['pubKeyIndex'])): stable insertion
RECURSIVE InsertSorted(_, _)
InsertSorted(s, b) ==
    IF s = <<>> THEN <<b>>
    ELSE IF s[Len(s)].pubKeyIndex <= b.pubKeyIndex THEN Append(s, b)
    ELSE Append(InsertSorted(SubSeq(s, 1, Len(s) - 1), b), s[Len(s)])

RECURSIVE sorted(_)
sorted(s) ==
    IF s = <<>> THEN <<>>
    ELSE InsertSorted(sorted(SubSeq(s, 1, Len(s) - 1)), s[Len(s)])

\* a cursor that is not advanced
NextStartStuck(s) == s

\* the cursor after a non-empty page
NextStart(s) == s + interval

\* an uncaught exception leaves do(): the process ends, the open connection is
\* dropped without commit
Crash(exc, step, resp) ==
    /\ pc' = "crashed"
    /\ error' = [exc |-> exc, step |-> step, resp |-> resp]

\* DROP TABLE before CREATE TABLE: the connection starts from an empty table
DropAndCreate(committed) == NoRows

\* sqlite3.connect and CREATE TABLE IF NOT EXISTS (lines 89-114): the table
\* the connection works on holds the rows that are committed
OpenTable(committed) == committed

\* one pass of the while-loop of record_bids (lines 53-84); on break, the sort
\* and the opening of the connection (lines 86-114)
RecordBidsRequest ==
    /\ pc = "record_bids"
    /\ \E kind \in RespKinds :
         LET r == api_post_request(kind, api_health)
             bids == Page(remote, start, start + interval, interval)
             h == [Event(hist, "fetch") EXCEPT !.requests = @ + 1,
                               !.call = Called(kind, r),
                               !.honest = @ /\ kind = "ok",
                               !.failed = IF kind \in RemoteFailures
                                          THEN kind ELSE @]
         IN /\ api_health' = r.health
            /\ hist' = h
            /\ IF r.exc # ""
               THEN /\ Crash(r.exc, "record_bids", kind)
                    /\ UNCHANGED <<start, all_bids, pos, txBid, txValidator>>
               ELSE IF r.result.none \/ (r.result.has_data /\ r.result.data_null)
               THEN /\ Crash("TypeError", "record_bids", kind)
                    /\ UNCHANGED <<start, all_bids, pos, txBid, txValidator>>
               ELSE IF ~r.result.has_data \/ Len(bids) < 1
               THEN /\ all_bids' = sorted(all_bids)
                    /\ pos' = 1
                    /\ txBid' = OpenTable(Bid)
                    /\ txValidator' = OpenTable(Validator)
                    /\ pc' = "upsert"
                    /\ UNCHANGED <<start, error>>
               ELSE /\ all_bids' = all_bids \o bids
                    /\ start' = NextStart(start)
                    /\ UNCHANGED <<pc, pos, txBid, txValidator, error>>
    /\ UNCHANGED <<cycle, remote, Bid, Validator, gauges>>

\* the rows the two INSERT OR REPLACE statements write for a fetched record
BidRow(bid) ==
    [id |-> bid.id, bidderAddress |-> bid.bidderAddress,
     pubKeyIndex |-> bid.pubKeyIndex, status |-> bid.status, amount |-> bid.amount]

\* a Validator row keyed by the id of the validator payload, not of the bid
ValidatorRowOwnId(bid) == [bid_id |-> "validator-id", phase |-> bid.validator.phase]

ValidatorRow(bid) == [bid_id |-> bid.id, phase |-> bid.validator.phase]

\* INSERT OR IGNORE: a row whose id is stored is left as it is
InsertOrIgnoreBid(table, row) ==
    IF \E r \in DOMAIN table : r.id = row.id THEN table ELSE With(table, row)

\* INSERT into a table without primary key: the row is added
InsertBid(table, row) == With(table, row)

\* INSERT OR REPLACE INTO Bid: id is the primary key, the rows that hold
\* the id of the new row are deleted before it is inserted
InsertOrReplaceBid(table, row) ==
    With(Without(table, {r \in DOMAIN table : r.id = row.id}), row)

\* INSERT OR REPLACE INTO Validator: bid_id is the primary key
InsertOrReplaceValidator(table, row) ==
    With(Without(table, {r \in DOMAIN table : r.bid_id = row.bid_id}), row)

\* a connection in autocommit mode: every statement is committed at once
AfterExecuteAutocommit(committed, tx) == tx

\* cursor.execute runs inside the implicit transaction of the connection:
\* the committed table is what it was, whatever the connection has written
AfterExecute(committed, tx) == committed

\* conn.commit(): the committed table becomes what the connection has written
AfterCommit(committed, tx) == tx

\* the row of the last record of every id in the batch
LastRows(batch) ==
    [id \in {batch[i].id : i \in DOMAIN batch} |->
        BidRow(batch[CHOOSE i \in DOMAIN batch :
                       /\ batch[i].id = id
                       /\ \A j \in DOMAIN batch : batch[j].id = id => j <= i])]

Merge(f, g) ==
    [x \in DOMAIN f \cup DOMAIN g |-> IF x \in DOMAIN g THEN g[x] ELSE f[x]]

\* one pass of the for-loop of record_bids (lines 116-145)
RecordBidsUpsert ==
    /\ pc = "upsert"
    /\ pos <= Len(all_bids)
    /\ LET bid == all_bids[pos]
           withBid == InsertOrReplaceBid(txBid, BidRow(bid))
       IN IF ~bid.complete
          THEN /\ Crash("KeyError", "record_bids", "")
               /\ Bid' = AfterExecute(Bid, txBid)
               /\ Validator' = AfterExecute(Validator, txValidator)
               /\ UNCHANGED <<pos, txBid, txValidator>>
          ELSE IF ~bid.validator.has
          THEN /\ txBid' = withBid
               /\ Bid' = AfterExecute(Bid, withBid)
               /\ Validator' = AfterExecute(Validator, txValidator)
               /\ pos' = pos + 1
               /\ UNCHANGED <<pc, error, txValidator>>
          ELSE IF ~bid.validator.complete
          THEN /\ Crash("KeyError", "record_bids", "")
               /\ txBid' = withBid
               /\ Bid' = AfterExecute(Bid, withBid)
               /\ Validator' = AfterExecute(Validator, txValidator)
               /\ UNCHANGED <<pos, txValidator>>
          ELSE /\ txBid' = withBid
               /\ txValidator' = InsertOrReplaceValidator(txValidator, ValidatorRow(bid))
               /\ Bid' = AfterExecute(Bid, withBid)
               /\ Validator' = AfterExecute(Validator, txValidator')
               /\ pos' = pos + 1
               /\ UNCHANGED <<pc, error>>
    /\ UNCHANGED <<cycle, remote, start, all_bids, api_health, gauges, hist>>

\* conn.commit() and conn.close() (lines 147-149)
RecordBidsCommit ==
    /\ pc = "upsert"
    /\ pos > Len(all_bids)
    /\ Bid' = AfterCommit(Bid, txBid)
    /\ Validator' = AfterCommit(Validator, txValidator)
    /\ hist' = [Event(hist, "commit") EXCEPT !.last = Merge(@, LastRows(all_bids)),
                                             !.ran = @ \cup {"record_bids"}]
    /\ pc' = AfterStep("record_bids")
    /\ UNCHANGED <<cycle, remote, start, all_bids, pos, txBid, txValidator,
                   api_health, gauges, error>>

(* ---------------------------------------------------------- get_our_bids *)
\* WHERE bidderAddress = '<bidder_address>' COLLATE NOCASE
OurBids(table) ==
    {r \in DOMAIN table : NoCase(r.bidderAddress) = NoCase(bidder_address)}

\* SELECT status, COUNT(*) ... GROUP BY status: one row per status present
StatusRows(table) ==
    {<<s, Count(table, {r \in OurBids(table) : r.status = s})>> :
        s \in {r.status : r \in OurBids(table)}}

\* status_counts built from the rows alone, without the zeros
status_counts_of_rows(rows) ==
    [s \in {row[1] : row \in rows} \cap Range(BidStatuses) |->
        (CHOOSE row \in rows : row[1] = s)[2]]

\* status_counts: zero for the three known statuses, then the rows of the
\* known statuses written over it
status_counts(rows) ==
    [s \in Range(BidStatuses) |->
        IF \E row \in rows : row[1] = s
        THEN (CHOOSE row \in rows : row[1] = s)[2]
        ELSE 0]

Wrote(h, names) == [h EXCEPT !.written = @ \cup names]

\* get_our_bids (lines 151-181)
GetOurBids ==
    /\ pc = "get_our_bids"
    /\ LET counts == status_counts(StatusRows(Bid))
           label == <<bidder_address>>
       IN /\ winning_bids' = IF "WON" \in DOMAIN counts
                             THEN GaugeSet(winning_bids, label, counts["WON"])
                             ELSE winning_bids
          /\ active_bids' = IF "ACTIVE" \in DOMAIN counts
                            THEN GaugeSet(active_bids, label, counts["ACTIVE"])
                            ELSE active_bids
          /\ cancelled_bids' = IF "CANCELLED" \in DOMAIN counts
                               THEN GaugeSet(cancelled_bids, label, counts["CANCELLED"])
                               ELSE cancelled_bids
          /\ hist' = [Wrote(Event(hist, "publish_status"),
                        {<<"winning_bids", label>> : x \in {"WON"} \cap DOMAIN counts}
                        \cup {<<"active_bids", label>> : x \in {"ACTIVE"} \cap DOMAIN counts}
                        \cup {<<"cancelled_bids", label>> :
                                 x \in {"CANCELLED"} \cap DOMAIN counts})
                      EXCEPT !.ran = @ \cup {"get_our_bids"}]
    /\ pc' = AfterStep("get_our_bids")
    /\ UNCHANGED <<cycle, remote, start, all_bids, pos, Bid, Validator, txBid,
                   txValidator, api_health, bids_amount_min, bids_amount_max,
                   validators_phase, error>>

(* ------------------------------------------------------- get_active_bids *)
\* float(<decimal string>)
RECURSIVE ToNumber(_)
ToNumber(digits) ==
    IF digits = <<>> THEN 0
    ELSE 10 * ToNumber(SubSeq(digits, 1, Len(digits) - 1)) + digits[Len(digits)]

\* SQLite compares two TEXT values byte by byte; a proper prefix is smaller
RECURSIVE TextLess(_, _)
TextLess(a, b) ==
    IF b = <<>> THEN FALSE
    ELSE IF a = <<>> THEN TRUE
    ELSE IF a[1] # b[1] THEN a[1] < b[1]
    ELSE TextLess(Tail(a), Tail(b))

\* the active bids of the other bidders the remote may hold
OthersChoices ==
    { {}, {[bidderAddress |-> OtherAddress, amount |-> <<2, 0>>],
           [bidderAddress |-> OtherAddress, amount |-> <<1, 2>>]} }

\* every bid with status ACTIVE the remote source holds, of whatever bidder
RemoteActive(rem, others) ==
    others \cup {[bidderAddress |-> b.bidderAddress, amount |-> b.amount] :
                   b \in {x \in rem : x.status = "ACTIVE"}}

\* a query without a filter on the bidder
AnyBidder(bids) == bids

\* where: {bidderAddress_not: <bidder_address>} (lines 187, 191); the remote
\* source compares addresses as bytes, whatever the case of the hex digits
NotBidder(bids) ==
    {b \in bids : NoCase(b.bidderAddress) # NoCase(bidder_address)}

\* bids(where: {bidderAddress_not: <bidder_address>, status: "ACTIVE"},
\*      orderBy: amount, orderDirection: asc | desc, first: 1)
othersMin(active) ==
    LET others == NotBidder(active)
    IN IF others = {} THEN <<>>
       ELSE <<CHOOSE b \in others :
                \A c \in others : ToNumber(b.amount) <= ToNumber(c.amount)>>

othersMax(active) ==
    LET others == NotBidder(active)
    IN IF others = {} THEN <<>>
       ELSE <<CHOOSE b \in others :
                \A c \in others : ToNumber(b.amount) >= ToNumber(c.amount)>>

\* WHERE bidderAddress = '<bidder_address>' COLLATE NOCASE AND status = 'ACTIVE'
OurActiveAmounts(table) ==
    {r.amount : r \in {q \in OurBids(table) : q.status = "ACTIVE"}}

\* SELECT MIN(amount), MAX(amount): amount is a TEXT column; without rows the
\* one row of the answer holds NULL, NULL
NullRow == [null |-> TRUE, min |-> <<>>, max |-> <<>>]

MinMaxRow(table) ==
    LET amounts == OurActiveAmounts(table)
    IN IF amounts = {} THEN NullRow
       ELSE [null |-> FALSE,
             min |-> CHOOSE a \in amounts : \A b \in amounts : a = b \/ TextLess(a, b),
             max |-> CHOOSE a \in amounts : \A b \in amounts : a = b \/ TextLess(b, a)]

\* the early return of line 199-200
SkipsExtrema(result, active) ==
    \/ ~result.has_data
    \/ Len(othersMin(active)) < 1
    \/ Len(othersMax(active)) < 1

\* get_active_bids (lines 183-236)
GetActiveBids ==
    /\ pc = "get_active_bids"
    /\ \E kind \in RespKinds, others \in OthersChoices :
         LET r == api_post_request(kind, api_health)
             active == RemoteActive(remote, others)
             ours == <<bidder_address, "active">>
             theirMin == othersMin(active)[1]
             theirMax == othersMax(active)[1]
             minAfter == GaugeSet(bids_amount_min,
                                  <<theirMin.bidderAddress, "active">>,
                                  ToNumber(theirMin.amount))
             maxAfter == GaugeSet(bids_amount_max,
                                  <<theirMax.bidderAddress, "active">>,
                                  ToNumber(theirMax.amount))
             theirs == {<<"bids_amount_min", <<theirMin.bidderAddress, "active">>>>,
                        <<"bids_amount_max", <<theirMax.bidderAddress, "active">>>>}
             row == MinMaxRow(Bid)
             h == [Event(hist, "extrema_query") EXCEPT !.call = Called(kind, r)]
             published == [set |-> TRUE, active |-> active,
                           min |-> <<theirMin.bidderAddress, "active">>,
                           max |-> <<theirMax.bidderAddress, "active">>]
         IN /\ api_health' = r.health
            /\ IF r.exc # ""
               THEN /\ Crash(r.exc, "get_active_bids", kind)
                    /\ hist' = h
                    /\ UNCHANGED <<bids_amount_min, bids_amount_max,
                                   txBid, txValidator>>
               ELSE IF r.result.none \/ (r.result.has_data /\ r.result.data_null)
               THEN /\ Crash("TypeError", "get_active_bids", kind)
                    /\ hist' = h
                    /\ UNCHANGED <<bids_amount_min, bids_amount_max,
                                   txBid, txValidator>>
               ELSE IF SkipsExtrema(r.result, active)
               THEN /\ pc' = AfterStep("get_active_bids")
                    /\ hist' = [h EXCEPT !.ran = @ \cup {"get_active_bids"}]
                    /\ UNCHANGED <<bids_amount_min, bids_amount_max, error,
                                   txBid, txValidator>>
               ELSE IF row.null
               THEN \* set(None): float(None) raises after labels() made the child
                    /\ Crash("TypeError", "get_active_bids", "")
                    /\ bids_amount_min' = GaugeLabels(minAfter, ours)
                    /\ bids_amount_max' = maxAfter
                    /\ hist' = [Wrote(h, theirs) EXCEPT !.local_query = TRUE,
                                                         !.extrema = published]
                    /\ UNCHANGED <<txBid, txValidator>>
               ELSE /\ bids_amount_min' = GaugeSet(minAfter, ours, ToNumber(row.min))
                    /\ bids_amount_max' = GaugeSet(maxAfter, ours, ToNumber(row.max))
                    /\ hist' = [Wrote(Event(h, "publish_extrema"),
                                      theirs \cup {<<"bids_amount_min", ours>>,
                                                   <<"bids_amount_max", ours>>})
                                EXCEPT !.local_query = TRUE,
                                       !.extrema = published,
                                       !.ran = @ \cup {"get_active_bids"}]
                    /\ pc' = AfterStep("get_active_bids")
                    /\ UNCHANGED <<error, txBid, txValidator>>
    /\ UNCHANGED <<cycle, remote, start, all_bids, pos, Bid, Validator,
                   winning_bids, active_bids, cancelled_bids, validators_phase>>

(* -------------------------------------------------- get_validators_phase *)
\* Validator JOIN Bid ON Bid.id = Validator.bid_id
\* WHERE Bid.bidderAddress = '<bidder_address>' COLLATE NOCASE
OurValidators(bids, validators) ==
    {x \in (DOMAIN validators) \X OurBids(bids) : x[2].id = x[1].bid_id}

RECURSIVE JoinCount(_, _, _)
JoinCount(bids, validators, pairs) ==
    IF pairs = {} THEN 0
    ELSE LET x == CHOOSE y \in pairs : TRUE
         IN validators[x[1]] * bids[x[2]] + JoinCount(bids, validators, pairs \ {x})

\* SELECT Validator.phase, COUNT(*) ... GROUP BY Validator.phase
PhaseRows(bids, validators) ==
    {<<p, JoinCount(bids, validators,
                    {x \in OurValidators(bids, validators) : x[1].phase = p})>> :
        p \in {x[1].phase : x \in OurValidators(bids, validators)}}

\* phase_counts that takes every row of the store, known phase or not
phase_counts_of_rows(rows) ==
    [p \in Range(Phases) \cup {row[1] : row \in rows} |->
        IF \E row \in rows : row[1] = p
        THEN (CHOOSE row \in rows : row[1] = p)[2]
        ELSE 0]

\* phase_counts: zero for the ten known phases, then the rows of the known
\* phases written over it
phase_counts(rows) ==
    [p \in Range(Phases) |->
        IF \E row \in rows : row[1] = p
        THEN (CHOOSE row \in rows : row[1] = p)[2]
        ELSE 0]

\* the loop of lines 258-260 over phase_counts.items()
RECURSIVE SetPhases(_, _, _)
SetPhases(g, counts, todo) ==
    IF todo = {} THEN g
    ELSE LET p == CHOOSE x \in todo : TRUE
         IN SetPhases(GaugeSet(g, <<Lower(p)>>, counts[p]), counts, todo \ {p})

\* get_validators_phase (lines 238-262), then the log line of do()
GetValidatorsPhase ==
    /\ pc = "get_validators_phase"
    /\ LET counts == phase_counts(PhaseRows(Bid, Validator))
       IN /\ validators_phase' = SetPhases(validators_phase, counts, DOMAIN counts)
          /\ hist' = [Wrote(Event(hist, "publish_phase"),
                            {<<"validators_phase", <<Lower(p)>>>> : p \in DOMAIN counts})
                      EXCEPT !.ran = @ \cup {"get_validators_phase"}]
    /\ pc' = AfterStep("get_validators_phase")
    /\ UNCHANGED <<cycle, remote, start, all_bids, pos, Bid, Validator, txBid,
                   txValidator, api_health, bids_amount_min, bids_amount_max,
                   winning_bids, active_bids, cancelled_bids, error>>

(* -------------------------------------------------------------------- do *)
\* what the remote source may hold one polling interval later: the same
\* bids, or one bid placed, changed or gone
RemoteAfter(rem) ==
    {rem}
    \cup {rem \ {b} : b \in rem}
    \cup {(rem \ {b}) \cup {[b EXCEPT !.bidderAddress = shape.bidderAddress,
                                      !.status = shape.status,
                                      !.amount = shape.amount,
                                      !.complete = shape.complete,
                                      !.validator = shape.validator]} :
            b \in rem, shape \in BidShapes}
    \cup UNION {{rem \cup {RemoteBid(id, w, shape)} :
                    w \in 0 .. MaxWindow, shape \in BidShapes} :
                 id \in BidIds \ {b.id : b \in rem}}

\* time.sleep(...) returns and the while-loop of do() starts its next pass
\* (lines 40-46); record_bids starts with an empty list and start = 0
Sleep ==
    /\ pc = "sleep"
    /\ cycle < MaxCycles
    /\ cycle' = cycle + 1
    /\ remote' \in RemoteAfter(remote)
    /\ pc' = FirstStep
    /\ start' = 0
    /\ all_bids' = <<>>
    /\ pos' = 1
    /\ hist' = NewHist(Bid, Validator, hist.last)
    /\ UNCHANGED <<Bid, Validator, txBid, txValidator, api_health, gauges, error>>

\* __init__ (lines 25-36) and the first pass of do(); the database file does
\* not exist yet
Init ==
    /\ pc = FirstStep
    /\ cycle = 1
    /\ remote \in RemoteAfter({})
    /\ start = 0
    /\ all_bids = <<>>
    /\ pos = 1
    /\ Bid = NoRows
    /\ Validator = NoRows
    /\ txBid = NoRows
    /\ txValidator = NoRows
    /\ api_health = 0
    /\ bids_amount_min = NoGauge
    /\ bids_amount_max = NoGauge
    /\ winning_bids = NoGauge
    /\ active_bids = NoGauge
    /\ cancelled_bids = NoGauge
    /\ validators_phase = NoGauge
    /\ error = NoError
    /\ hist = NewHist(NoRows, NoRows, NoRows)

Next ==
    \/ RecordBidsRequest
    \/ RecordBidsUpsert
    \/ RecordBidsCommit
    \/ GetOurBids
    \/ GetActiveBids
    \/ GetValidatorsPhase
    \/ Sleep

Spec == Init /\ [][Next]_vars

(* ================================================================ claims *)
Ours == <<bidder_address, "active">>
OwnLabel == <<bidder_address>>
PublishSteps == {"get_our_bids", "get_active_bids", "get_validators_phase"}
WindowOf(b) == b.pubKeyIndex \div interval
InRecordBids ==
    \/ pc \in {"record_bids", "upsert"}
    \/ pc = "crashed" /\ error.step = "record_bids"

\* C1: the loop of do() has no terminal state: no non-200 answer and no
\* request timeout ever ends the process.
C1_NeverStopsOnRemoteFailure ==
    ~(pc = "crashed" /\ error.resp \in {"non200", "timeout"})

\* C2: when every request of the pagination loop succeeds and the remote
\* holds bids in several windows, the batch that leaves the loop holds exactly
\* the remote bids, in ascending order of pubKeyIndex, and the store holds a
\* row for each of them once the batch is committed.
C2_PaginationComplete ==
    (/\ hist.honest
     /\ Cardinality({WindowOf(b) : b \in remote}) >= 2
     /\ \A b \in remote : b.complete /\ b.validator.complete
     /\ pc \notin {"record_bids", "crashed"})
    => /\ Len(all_bids) = Cardinality(remote)
       /\ Range(all_bids) = remote
       /\ \A i, j \in DOMAIN all_bids :
            i < j => all_bids[i].pubKeyIndex < all_bids[j].pubKeyIndex
       /\ (pc # "upsert" => \A b \in remote : BidRow(b) \in DOMAIN Bid)

\* the last window that holds a remote bid
LastWindow == IF remote = {} THEN -1
              ELSE CHOOSE w \in {WindowOf(b) : b \in remote} :
                      \A b \in remote : WindowOf(b) <= w

\* C3: the pagination loop ends: a cycle sends at most one request per
\* window up to the last window that holds a remote bid, and one more; the
\* cursor is interval times the number of non-empty pages.
C3_PaginationTerminates ==
    /\ hist.requests <= LastWindow + 2
    /\ start <= (LastWindow + 1) * interval
    /\ (pc = "record_bids" => start = hist.requests * interval)

C3_Witness ==
    /\ pc = "upsert"
    /\ hist.requests = 3
    /\ Len(all_bids) = 2

\* C4: the upserts of a cycle are atomic: while record_bids runs, and after
\* it has failed, the committed tables are those of the start of the cycle;
\* once it has committed, the rows of every record of the batch are there.
C4_AtomicBatch ==
    /\ InRecordBids => (Bid = hist.Bid0 /\ Validator = hist.Validator0)
    /\ "record_bids" \in hist.ran =>
          \A i \in DOMAIN all_bids :
             /\ \E r \in DOMAIN Bid : r.id = all_bids[i].id
             /\ all_bids[i].validator.has =>
                   \E v \in DOMAIN Validator : v.bid_id = all_bids[i].id

C4_Witness ==
    /\ pc = "crashed"
    /\ error.exc = "KeyError"
    /\ txBid # Bid
    /\ Bid = hist.Bid0

\* C5: when a request of the pagination loop fails, the cycle ends with the
\* tables unchanged and with the three publish steps of that cycle run.
C5_FetchFailureStillPublishes ==
    (hist.failed # "" /\ pc \in {"crashed", "sleep"})
    => /\ Bid = hist.Bid0
       /\ Validator = hist.Validator0
       /\ PublishSteps \subseteq hist.ran

\* the ids whose most recent committed upsert carries status s
LastWithStatus(s) ==
    Cardinality({id \in DOMAIN hist.last :
                    /\ NoCase(hist.last[id].bidderAddress) = NoCase(bidder_address)
                    /\ hist.last[id].status = s})

\* C6: last write wins: the Bid table holds one row per id, the row of the
\* most recent committed upsert of that id, and after get_our_bids the three
\* status gauges count every bid under the status of that row only.
C6_LastWriteWins ==
    /\ \A r \in DOMAIN Bid : Bid[r] = 1
    /\ \A r1, r2 \in DOMAIN Bid : r1.id = r2.id => r1 = r2
    /\ DOMAIN Bid = {hist.last[id] : id \in DOMAIN hist.last}
    /\ "get_our_bids" \in hist.ran =>
          /\ winning_bids[OwnLabel] = LastWithStatus("WON")
          /\ active_bids[OwnLabel] = LastWithStatus("ACTIVE")
          /\ cancelled_bids[OwnLabel] = LastWithStatus("CANCELLED")

C6_Witness ==
    /\ "get_our_bids" \in hist.ran
    /\ \E old \in DOMAIN hist.Bid0, new \in DOMAIN Bid :
          /\ old.id = new.id
          /\ old.status = "ACTIVE"
          /\ new.status = "WON"
          /\ active_bids[OwnLabel] = 0
          /\ winning_bids[OwnLabel] = 1

\* the rows of the record were stored, as they are, when the cycle began
AlreadyStored(bid) ==
    /\ BidRow(bid) \in DOMAIN hist.Bid0
    /\ bid.validator.has => ValidatorRow(bid) \in DOMAIN hist.Validator0

OursWithStatus(s) == Count(Bid, {r \in OurBids(Bid) : r.status = s})

\* C8: zero-fill: after get_our_bids the three status gauges of the
\* configured bidder have been written in this cycle and hold the number of
\* stored bids of that bidder with status WON, ACTIVE, CANCELLED, 0 included.
C8_ZeroFill ==
    "get_our_bids" \in hist.ran =>
       /\ {<<"winning_bids", OwnLabel>>, <<"active_bids", OwnLabel>>,
           <<"cancelled_bids", OwnLabel>>} \subseteq hist.written
       /\ OwnLabel \in DOMAIN winning_bids \cap DOMAIN active_bids \cap DOMAIN cancelled_bids
       /\ winning_bids[OwnLabel] = OursWithStatus("WON")
       /\ active_bids[OwnLabel] = OursWithStatus("ACTIVE")
       /\ cancelled_bids[OwnLabel] = OursWithStatus("CANCELLED")

C8_Witness ==
    /\ "get_our_bids" \in hist.ran
    /\ \E r \in DOMAIN hist.Bid0 : r.status = "CANCELLED"
    /\ cancelled_bids[OwnLabel] = 0

\* C9: when no ACTIVE bid of the configured bidder is stored, a run of
\* get_active_bids that reaches the local min/max query ends with both
\* gauges of (configured bidder, 'active') reading 0.
C9_ExtremaZeroWithoutActive ==
    (hist.local_query /\ OurActiveAmounts(Bid) = {})
    => /\ Ours \in DOMAIN bids_amount_min /\ bids_amount_min[Ours] = 0
       /\ Ours \in DOMAIN bids_amount_max /\ bids_amount_max[Ours] = 0

\* C10: every run of get_active_bids writes both gauges of (configured
\* bidder, 'active'), also when the remote answer has no othersMin/othersMax.
C10_OwnExtremaNeverSkipped ==
    "get_active_bids" \in hist.ran =>
       {<<"bids_amount_min", Ours>>, <<"bids_amount_max", Ours>>} \subseteq hist.written

OwnWritten ==
    {<<"bids_amount_min", Ours>>, <<"bids_amount_max", Ours>>} \subseteq hist.written

\* the numbers the stored ACTIVE amounts of the configured bidder stand for
OurActiveNumbers == {ToNumber(a) : a \in OurActiveAmounts(Bid)}

\* C11: the local minimum and maximum published by get_active_bids are those
\* of least and greatest numeric magnitude among the stored ACTIVE amounts of
\* the configured bidder ("9" is the minimum of "9" and "10").
C11_NumericMinMax ==
    OwnWritten =>
       /\ bids_amount_min[Ours] \in OurActiveNumbers
       /\ bids_amount_max[Ours] \in OurActiveNumbers
       /\ \A n \in OurActiveNumbers :
             bids_amount_min[Ours] <= n /\ n <= bids_amount_max[Ours]

\* C12: health reflection: a non-200 answer leaves api_health at 0 and the
\* exporter running, so that a later 200 answer is processed and sets the
\* gauge back to 1: no state with api_health = 0 after a non-200 answer is a
\* state in which the process has ended.
C12_HealthRestoredAfterFailure ==
    (api_health = 0 /\ hist.call.made /\ hist.call.failure /\ hist.call.writes = 1)
    => pc # "crashed"

\* C13: every call of api_post_request writes api_health exactly once, 1 on
\* a successful answer and 0 on a non-success status, a timeout or a
\* malformed body, and returns instead of raising.
C13_OneHealthWritePerCall ==
    hist.call.made =>
       /\ hist.call.writes = 1
       /\ api_health = (IF hist.call.failure THEN 0 ELSE 1)
       /\ ~hist.call.raised

\* every occurrence of event a in the cycle lies before every occurrence of b
Before(a, b) ==
    \A i, j \in DOMAIN hist.events :
       (hist.events[i] = a /\ hist.events[j] = b) => i < j

\* event b has happened in the cycle only after event a
Follows(b, a) ==
    \A j \in DOMAIN hist.events :
       hist.events[j] = b => \E i \in 1 .. j - 1 : hist.events[i] = a

StorePublications == {"publish_status", "publish_extrema", "publish_phase"}

\* C14 as stated: in every pass the remote extrema query comes first, then
\* the paginated fetch, then the upsert, then the publication of the gauges.
C14_ExtremaQueryBeforeFetch ==
    /\ Follows("fetch", "extrema_query")
    /\ Follows("commit", "fetch")
    /\ \A e \in StorePublications : Follows(e, "commit")

\* C14 amended: in every pass the paginated fetch comes first, then the
\* commit of the upsert, then the status gauges, then the remote extrema
\* query and the min/max gauges, then the phase gauges; no gauge derived from
\* the store is published before the commit of the cycle.
C14_FetchCommitThenPublish ==
    /\ Follows("commit", "fetch")
    /\ Follows("publish_status", "commit")
    /\ Follows("extrema_query", "publish_status")
    /\ Follows("publish_extrema", "extrema_query")
    /\ Follows("publish_phase", "extrema_query")
    /\ Before("publish_extrema", "publish_phase")
    /\ \A e \in StorePublications : Follows(e, "commit")
    /\ pc = "sleep" =>
          {"fetch", "commit", "publish_status", "extrema_query", "publish_phase"}
             \subseteq Range(hist.events)

C14_Witness ==
    /\ pc = "sleep"
    /\ hist.events = <<"fetch", "commit", "publish_status", "extrema_query",
                       "publish_extrema", "publish_phase">>

KnownPhaseLabels ==
    {<<"not_initialized">>, <<"stake_deposited">>, <<"waiting_for_approval">>,
     <<"live">>, <<"being_slashed">>, <<"exited">>, <<"fully_withdrawn">>,
     <<"cancelled">>, <<"evicted">>, <<"ready_for_deposit">>}

\* the stored validators of the configured bidder's bids in a phase
ValidatorsIn(phase) ==
    Cardinality({v \in DOMAIN Validator :
                    /\ v.phase = phase
                    /\ \E b \in OurBids(Bid) : b.id = v.bid_id})

\* C15: fixed cardinality: the labels of validators_phase are the lowercase
\* forms of the ten known phases and nothing else, every run of
\* get_validators_phase writes all ten with the stored count or 0, and the
\* status gauges carry the one label of the configured bidder and count the
\* bids of known status only.
C15_FixedCardinality ==
    /\ DOMAIN validators_phase \subseteq KnownPhaseLabels
    /\ DOMAIN winning_bids \cup DOMAIN active_bids \cup DOMAIN cancelled_bids
          \subseteq {OwnLabel}
    /\ "get_validators_phase" \in hist.ran =>
          /\ DOMAIN validators_phase = KnownPhaseLabels
          /\ {<<"validators_phase", l>> : l \in KnownPhaseLabels} \subseteq hist.written
          /\ \A p \in Range(Phases) :
                validators_phase[<<Lower(p)>>] = ValidatorsIn(p)
    /\ "get_our_bids" \in hist.ran =>
          winning_bids[OwnLabel] + active_bids[OwnLabel] + cancelled_bids[OwnLabel]
             = Cardinality({r \in OurBids(Bid) : r.status \in Range(BidStatuses)})

C15_Witness ==
    /\ "get_validators_phase" \in hist.ran
    /\ \E v \in DOMAIN Validator : v.phase = "SLEEPING"
    /\ \E r \in DOMAIN Bid : r.status = "PENDING"
    /\ \A l \in KnownPhaseLabels : validators_phase[l] = 0

HasParent(v, bids) == \E b \in DOMAIN bids : b.id = v.bid_id

\* C16: every Validator row of the committed tables has a Bid row whose id
\* is its bid_id, and a Validator row written in a cycle belongs to a record
\* of the batch whose Bid row the connection has written before it.
C16_ValidatorHasBid ==
    /\ \A v \in DOMAIN Validator : HasParent(v, Bid)
    /\ \A v \in DOMAIN txValidator : HasParent(v, txBid)
    /\ \A v \in DOMAIN txValidator \ DOMAIN hist.Validator0 :
          \E i \in 1 .. pos - 1 :
             /\ all_bids[i].id = v.bid_id
             /\ \E b \in DOMAIN txBid : b.id = all_bids[i].id

C16_Witness ==
    /\ "record_bids" \in hist.ran
    /\ \E v \in DOMAIN Validator \ DOMAIN hist.Validator0 : HasParent(v, Bid)
    /\ Cardinality(DOMAIN Bid) = 2

StoredIds(bids) == {b.id : b \in DOMAIN bids}

StoredBidIds(validators) == {v.bid_id : v \in DOMAIN validators}

\* a stored Bid of the configured bidder that the remote source no longer returns
GoneFromRemote(b) == b \in OurBids(Bid) /\ ~ \E r \in remote : r.id = b.id

\* a stored Validator of the configured bidder whose bid the remote source
\* returns without a validator payload
PayloadGone(v) ==
    /\ \E b \in OurBids(Bid) : b.id = v.bid_id
    /\ \E r \in remote : r.id = v.bid_id /\ r.complete /\ ~r.validator.has

NoShrink ==
    /\ StoredIds(Bid) \subseteq StoredIds(Bid')
    /\ StoredBidIds(Validator) \subseteq StoredBidIds(Validator')

StillCounted ==
    /\ "get_our_bids" \in hist.ran =>
          \A b \in DOMAIN Bid :
             GoneFromRemote(b) /\ b.status = "WON" => winning_bids[OwnLabel] >= 1
    /\ "get_validators_phase" \in hist.ran =>
          \A v \in DOMAIN Validator :
             PayloadGone(v) /\ v.phase = "LIVE" => validators_phase[<<"live">>] >= 1

\* C17: no step removes an id from the stored Bid ids or a bid_id from the
\* stored Validator bid_ids; a Bid the remote source no longer returns and a
\* Validator whose bid comes back without a validator payload stay stored and
\* are counted by the aggregates of the cycle.
C17_NoDeletion == [][NoShrink]_vars /\ []StillCounted

C17_Witness ==
    /\ "record_bids" \in hist.ran
    /\ "get_validators_phase" \in hist.ran
    /\ \E v \in DOMAIN Validator :
          /\ PayloadGone(v) /\ v.phase = "LIVE" /\ validators_phase[<<"live">>] >= 1
          /\ \E i \in DOMAIN all_bids : all_bids[i].id = v.bid_id

AmountsOf(bids) == {ToNumber(b.amount) : b \in bids}

Least(numbers) == CHOOSE n \in numbers : \A m \in numbers : n <= m

Greatest(numbers) == CHOOSE n \in numbers : \A m \in numbers : n >= m

\* the active bids of the remote source placed by another bidder than the
\* configured one
OfOtherBidders(active) ==
    {b \in active : b.bidderAddress \notin {bidder_address, UpperAddress}}

\* C18 as stated: the published remote extrema are the least and the greatest
\* amount among all active bids of the remote source, those of the
\* configured bidder included.
C18_ExtremaOverAllBidders ==
    hist.extrema.set =>
        /\ bids_amount_min[hist.extrema.min] = Least(AmountsOf(hist.extrema.active))
        /\ bids_amount_max[hist.extrema.max] = Greatest(AmountsOf(hist.extrema.active))

\* C18: the published remote extrema are the least and the greatest amount
\* among the active bids of the bidders other than the configured one, and
\* are published under the label of the bidder that placed them; an active
\* bid of the configured bidder is never the published remote extreme.
C18_ExtremaOverOtherBidders ==
    hist.extrema.set =>
        LET others == OfOtherBidders(hist.extrema.active)
        IN /\ others # {}
           /\ hist.extrema.min[1] \in {b.bidderAddress : b \in others}
           /\ hist.extrema.max[1] \in {b.bidderAddress : b \in others}
           /\ bids_amount_min[hist.extrema.min] = Least(AmountsOf(others))
           /\ bids_amount_max[hist.extrema.max] = Greatest(AmountsOf(others))

C18_Witness ==
    /\ hist.extrema.set
    /\ "get_active_bids" \in hist.ran
    /\ \E b \in hist.extrema.active :
          /\ b.bidderAddress = bidder_address
          /\ ToNumber(b.amount) = Least(AmountsOf(hist.extrema.active))
    /\ bids_amount_min[hist.extrema.min] = 12
    /\ bids_amount_min[Ours] = 9

\* the configured address and the address that differs from it in letter case
AnyCase == {bidder_address, UpperAddress}

StoredAnyCase(s) == {r \in DOMAIN Bid : r.bidderAddress \in AnyCase /\ r.status = s}

TextMin(amounts) == CHOOSE a \in amounts : \A b \in amounts : a = b \/ TextLess(a, b)

TextMax(amounts) == CHOOSE a \in amounts : \A b \in amounts : a = b \/ TextLess(b, a)

\* C19: case-insensitive match: the status counts, the local min/max and,
\* through the join, the phase counts take the stored bids whose
\* bidderAddress is the configured address in any letter case.
C19_CaseInsensitiveMatch ==
    /\ "get_our_bids" \in hist.ran =>
          /\ winning_bids[OwnLabel] = Count(Bid, StoredAnyCase("WON"))
          /\ active_bids[OwnLabel] = Count(Bid, StoredAnyCase("ACTIVE"))
          /\ cancelled_bids[OwnLabel] = Count(Bid, StoredAnyCase("CANCELLED"))
    /\ OwnWritten =>
          LET amounts == {r.amount : r \in StoredAnyCase("ACTIVE")}
          IN /\ amounts # {}
             /\ bids_amount_min[Ours] = ToNumber(TextMin(amounts))
             /\ bids_amount_max[Ours] = ToNumber(TextMax(amounts))
    /\ "get_validators_phase" \in hist.ran =>
          \A p \in Range(Phases) :
             validators_phase[<<Lower(p)>>] =
                Cardinality({v \in DOMAIN Validator :
                                /\ v.phase = p
                                /\ \E b \in DOMAIN Bid :
                                      b.bidderAddress \in AnyCase /\ b.id = v.bid_id})

C19_Witness ==
    /\ "get_validators_phase" \in hist.ran
    /\ OwnWritten
    /\ \A r \in DOMAIN Bid : r.bidderAddress = UpperAddress
    /\ \E v \in DOMAIN Validator : v.phase = "LIVE"
    /\ active_bids[OwnLabel] = 1
    /\ bids_amount_min[Ours] = 10
    /\ validators_phase[<<"live">>] = 1

\* C20: while do() sleeps the api_health gauge reads 1: the cycle that has
\* reached the sleep has had every request answered with status 200, the
\* last of them the extrema request, which wrote the gauge once.
C20_HealthyWhileSleeping ==
    pc = "sleep" =>
       /\ api_health = 1
       /\ hist.failed = ""
       /\ hist.requests >= 1
       /\ hist.call.made /\ ~hist.call.failure /\ hist.call.writes = 1

C20_Witness ==
    /\ pc = "sleep"
    /\ cycle = MaxCycles
    /\ api_health = 1
    /\ hist.requests >= 2
    /\ "extrema_query" \in Range(hist.events)
====
